---- MODULE Spec2Model ----
(***************************************************************************)
(* midisync: a MIDI file and a video clip become a video in which the clip *)
(* plays during every note/chord and a green screen fills the silence.     *)
(* Two scripts share extractNotes: midisync.py bounces a clip that is too  *)
(* short (forward, reversed, ...), midisync_nogui.py loops it.             *)
(*                                                                         *)
(* The scripts keep time in binary floating point (currentTime +=         *)
(* msg.time, endTime - startTime, duration / sourceClip.duration).  Here   *)
(* every time is an integer number of units of 1/80 s, and the message     *)
(* deltas and the clip durations are multiples of Grid = 5 units, that is  *)
(* of 1/16 s: these are binary fractions, on which the sums, differences   *)
(* and comparisons of the scripts are exact (a file of 8 ticks per beat at *)
(* 500000 us per beat has MIDI ticks of exactly 1/16 s).  The default      *)
(* chord threshold of 0.1 s is 8 units and lies between two grid points;   *)
(* the thresholds given to midisync_nogui.py are that default or grid      *)
(* points.  Times off this grid, where the float operations round, are     *)
(* not covered.                                                            *)
(*                                                                         *)
(* Both scripts are run on the same MIDI file and the same clip: first the *)
(* message scan (identical in the two files), then createVideo of          *)
(* midisync_nogui.py, then createVideo of midisync.py.                     *)
(***************************************************************************)
EXTENDS Integers, Sequences, FiniteSets

\* ---- bounds of the model ----
MaxMsgs == 5
MaxDelta == 2
MaxSourceDuration == 3
MaxThreshold == 2
\* the while loop of midisync.py never ends when the clip has length 0: its
\* list of chunks grows without limit, and is followed up to this length
MaxChunks == 11

\* ---- program constants ----
\* chordThreshold = 0.1 s, in units of 1/80 s
DefaultChordThreshold == 8
DefaultFps == 30

\* 1/16 s in units of 1/80 s: the step of message deltas and clip durations
Grid == 80 \div 16

\* msg.time of the messages considered
Deltas == {d * Grid : d \in 0..MaxDelta}
\* sourceClip.duration of the clips considered
SourceDurations == {k * Grid : k \in 1..MaxSourceDuration}
\* chord_threshold arguments considered
Thresholds == {DefaultChordThreshold} \cup {k * Grid : k \in 1..MaxThreshold}

Pitches == {60, 62}
Velocities == {0, 64}

Msgs ==
    [type : {"note_on"}, note : Pitches, velocity : Velocities, time : Deltas]
    \cup [type : {"note_off"}, note : Pitches, velocity : {64}, time : Deltas]
    \cup [type : {"control_change"}, note : {0}, velocity : {0}, time : Deltas]

VARIABLES
    chordThreshold,     \* chord_threshold argument of midisync_nogui.py
    fps,                \* fps argument of midisync_nogui.py
    sourceDuration,     \* duration of the clip file (sourceClip.duration)
    pc,
    msgCount,           \* messages of the file consumed so far
    msg,                \* the message of the current iteration (NoMsg outside the loop)
    wasActive,          \* whether msg.note was in activeNotes when msg arrived
    currentTime, activeNotes, noteEvents,
    groupedEvents,      \* extractNotes' result in midisync.py
    groupedEventsN,     \* extractNotes' result in midisync_nogui.py
    \* createVideo of midisync_nogui.py
    videoClipsN, currentPosN, idxN, outcomeN,
    \* createVideo of midisync.py
    videoClips, currentPos, idx, clips, remainingDuration, forward, outcome

scanVars == <<msgCount, msg, wasActive, currentTime, activeNotes, noteEvents>>
cfgVars == <<chordThreshold, fps, sourceDuration>>
nVars == <<videoClipsN, currentPosN, idxN, outcomeN>>
bVars == <<videoClips, currentPos, idx, clips, remainingDuration, forward, outcome>>
vars == <<cfgVars, pc, scanVars, groupedEvents, groupedEventsN, nVars, bVars>>

\* ---- extractNotes ----

\* variant: a start already recorded for the key is kept
DictSetDefault(d, k, v) ==
    [q \in (DOMAIN d) \cup {k} |-> IF q \in DOMAIN d THEN d[q] ELSE v]

\* activeNotes[note] = currentTime
DictSet(d, k, v) == [q \in (DOMAIN d) \cup {k} |-> IF q = k THEN v ELSE d[q]]
\* del activeNotes[note]
DictDel(d, k) == [q \in (DOMAIN d) \ {k} |-> d[q]]

IsNoteOn(m) == m.type = "note_on" /\ m.velocity > 0
IsNoteOffExplicit(m) == m.type = "note_off"
IsNoteOff(m) == m.type = "note_off" \/ (m.type = "note_on" /\ m.velocity = 0)

\* no message: before the first iteration and after the loop
NoMsg == [type |-> "none", note |-> 0, velocity |-> 0, time |-> 0]

\* variant: the clock only advances on the messages that are acted upon
ScanStepSkip(m, clock, active, notes) ==
    LET now == clock + m.time
    IN IF m.type = "note_on" /\ m.velocity > 0
         THEN [currentTime |-> now,
               activeNotes |-> [q \in (DOMAIN active) \cup {m.note} |->
                                   IF q = m.note THEN now ELSE active[q]],
               noteEvents |-> notes]
         ELSE IF (m.type = "note_off" \/ (m.type = "note_on" /\ m.velocity = 0))
                 /\ m.note \in DOMAIN active
           THEN [currentTime |-> now,
                 activeNotes |-> [q \in (DOMAIN active) \ {m.note} |-> active[q]],
                 noteEvents |-> Append(notes, [pitch |-> m.note,
                                               start |-> active[m.note],
                                               end |-> now])]
           ELSE [currentTime |-> clock, activeNotes |-> active, noteEvents |-> notes]

\* the body of "for msg in mid" as a function of the locals: the clock, the
\* table of active notes and the list of notes after message m
ScanStep(m, clock, active, notes) ==
    LET now == clock + m.time
    IN IF IsNoteOn(m)
         THEN [currentTime |-> now,
               activeNotes |-> DictSet(active, m.note, now),
               noteEvents |-> notes]
         ELSE IF IsNoteOff(m) /\ m.note \in DOMAIN active
           THEN [currentTime |-> now,
                 activeNotes |-> DictDel(active, m.note),
                 noteEvents |-> Append(notes, [pitch |-> m.note,
                                               start |-> active[m.note],
                                               end |-> now])]
           ELSE [currentTime |-> now, activeNotes |-> active, noteEvents |-> notes]

\* one iteration of "for msg in mid", for a file of at most n messages
ProcessMsgUpTo(n) ==
    /\ pc = "scan"
    /\ msgCount < n
    /\ \E m \in Msgs :
        LET next == ScanStep(m, currentTime, activeNotes, noteEvents)
        IN /\ msg' = m
           /\ wasActive' = (m.note \in DOMAIN activeNotes)
           /\ currentTime' = next.currentTime
           /\ activeNotes' = next.activeNotes
           /\ noteEvents' = next.noteEvents
    /\ msgCount' = msgCount + 1
    /\ UNCHANGED <<cfgVars, pc, groupedEvents, groupedEventsN, nVars, bVars>>

ProcessMsg == ProcessMsgUpTo(MaxMsgs)

\* the same for files one message longer
ProcessMsgLong == ProcessMsgUpTo(MaxMsgs + 1)

\* variant: a note is put before the notes of equal start
RECURSIVE InsertByStartStrict(_, _)
InsertByStartStrict(e, s) ==
    IF s = <<>> THEN <<e>>
    ELSE IF s[Len(s)].start < e.start THEN Append(s, e)
    ELSE Append(InsertByStartStrict(e, SubSeq(s, 1, Len(s) - 1)), s[Len(s)])

\* list.sort(key = start): stable, ascending
RECURSIVE InsertByStart(_, _)
InsertByStart(e, s) ==
    IF s = <<>> THEN <<e>>
    ELSE IF s[Len(s)].start <= e.start THEN Append(s, e)
    ELSE Append(InsertByStart(e, SubSeq(s, 1, Len(s) - 1)), s[Len(s)])

RECURSIVE SortByStart(_)
SortByStart(s) ==
    IF s = <<>> THEN <<>>
    ELSE InsertByStart(s[Len(s)], SortByStart(SubSeq(s, 1, Len(s) - 1)))

\* the test that opens a new group; lastStartTime is <<>> for None, <<t>> otherwise
OpensGroupGe(start, lastStartTime, threshold) ==
    lastStartTime = <<>> \/ (start - lastStartTime[1]) >= threshold
OpensGroup(start, lastStartTime, threshold) ==
    lastStartTime = <<>> \/ (start - lastStartTime[1]) > threshold

\* the dict appended to groupedEvents, noteNum being already incremented
NewGroupStale(noteNum, event) ==
    [noteNum |-> noteNum - 1, start |-> event.start, end |-> event.end]
NewGroup(noteNum, event) ==
    [noteNum |-> noteNum, start |-> event.start, end |-> event.end]

\* variant: an absorbed note also becomes the reference of the next test
RECURSIVE GroupSweepChain(_, _, _, _, _, _)
GroupSweepChain(events, k, noteNum, lastStartTime, grouped, threshold) ==
    IF k > Len(events) THEN grouped
    ELSE IF lastStartTime = <<>> \/ (events[k].start - lastStartTime[1]) > threshold
      THEN GroupSweepChain(events, k + 1, noteNum + 1, <<events[k].start>>,
                           Append(grouped, [noteNum |-> noteNum + 1,
                                            start |-> events[k].start,
                                            end |-> events[k].end]),
                           threshold)
      ELSE GroupSweepChain(events, k + 1, noteNum, <<events[k].start>>, grouped,
                           threshold)

\* variant: an absorbed note that ends later extends its group
RECURSIVE GroupSweepUnion(_, _, _, _, _, _)
GroupSweepUnion(events, k, noteNum, lastStartTime, grouped, threshold) ==
    IF k > Len(events) THEN grouped
    ELSE IF lastStartTime = <<>> \/ (events[k].start - lastStartTime[1]) > threshold
      THEN GroupSweepUnion(events, k + 1, noteNum + 1, <<events[k].start>>,
                           Append(grouped, [noteNum |-> noteNum + 1,
                                            start |-> events[k].start,
                                            end |-> events[k].end]),
                           threshold)
      ELSE GroupSweepUnion(events, k + 1, noteNum, lastStartTime,
                           [grouped EXCEPT ![Len(grouped)].end =
                               IF events[k].end > @ THEN events[k].end ELSE @],
                           threshold)

\* "for event in noteEvents" of the grouping pass, from position k on
RECURSIVE GroupSweep(_, _, _, _, _, _)
GroupSweep(events, k, noteNum, lastStartTime, grouped, threshold) ==
    IF k > Len(events) THEN grouped
    ELSE IF OpensGroup(events[k].start, lastStartTime, threshold)
      THEN GroupSweep(events, k + 1, noteNum + 1, <<events[k].start>>,
                      Append(grouped, NewGroup(noteNum + 1, events[k])),
                      threshold)
      ELSE GroupSweep(events, k + 1, noteNum, lastStartTime, grouped, threshold)

GroupNotes(sorted, threshold) == GroupSweep(sorted, 1, 0, <<>>, <<>>, threshold)

\* the notes still open at the end of the file, closed at the final clock
RECURSIVE OpenNotes(_, _)
OpenNotes(active, clock) ==
    IF DOMAIN active = {} THEN <<>>
    ELSE LET p == CHOOSE q \in DOMAIN active : \A r \in DOMAIN active : q <= r
         IN <<[pitch |-> p, start |-> active[p], end |-> clock]>>
            \o OpenNotes([q \in (DOMAIN active) \ {p} |-> active[q]], clock)

\* variant: the notes still open at the end of the file are emitted too
ExtractFinishFlush ==
    /\ pc = "scan"
    /\ noteEvents' = SortByStart(noteEvents \o OpenNotes(activeNotes, currentTime))
    /\ groupedEvents' = GroupNotes(noteEvents', DefaultChordThreshold)
    /\ groupedEventsN' = GroupNotes(noteEvents', chordThreshold)
    /\ msgCount' = 0
    /\ msg' = NoMsg
    /\ wasActive' = FALSE
    /\ currentTime' = 0
    /\ activeNotes' = [q \in {} |-> 0]
    /\ pc' = "nogui_start"
    /\ UNCHANGED <<cfgVars, nVars, bVars>>

\* end of the message loop: sort, group, return.  The clock, the table of
\* active notes and the file iterator are locals that die at the return;
\* the sorted notes are kept, as the list the groups were made from.
ExtractFinish ==
    /\ pc = "scan"
    /\ noteEvents' = SortByStart(noteEvents)
    /\ groupedEvents' = GroupNotes(noteEvents', DefaultChordThreshold)
    /\ groupedEventsN' = GroupNotes(noteEvents', chordThreshold)
    /\ msgCount' = 0
    /\ msg' = NoMsg
    /\ wasActive' = FALSE
    /\ currentTime' = 0
    /\ activeNotes' = [q \in {} |-> 0]
    /\ pc' = "nogui_start"
    /\ UNCHANGED <<cfgVars, nVars, bVars>>

\* ---- the timeline: what createVideo appends to videoClips ----

\* a piece of the source clip: sourceClip.subclip(0, d), played forward or reversed
Chunk(d, rev) == [duration |-> d, reversed |-> rev]

RECURSIVE SumDur(_)
SumDur(s) == IF s = <<>> THEN 0 ELSE s[1].duration + SumDur(Tail(s))

\* ColorClip(color = green, duration = gapDuration)
GreenClip(gapDuration) ==
    [kind |-> "filler", duration |-> gapDuration, flipped |-> FALSE, chunks |-> <<>>]

\* variant: a gap clip is also made when the note starts at the cursor
WithGapGe(vc, startTime, pos) ==
    IF startTime >= pos THEN Append(vc, GreenClip(startTime - pos)) ELSE vc

\* "if startTime > currentPos": the gap before a note
WithGap(vc, startTime, pos) ==
    IF startTime > pos THEN Append(vc, GreenClip(startTime - pos)) ELSE vc

\* "if noteNum % 2 == 0": horizontal flip of even-numbered notes
IsFlippedOdd(noteNum) == noteNum % 2 = 1
IsFlipped(noteNum) == noteNum % 2 = 0

\* a note clip made of the given pieces, with the duration given
NoteClip(pieces, d, noteNum) ==
    [kind |-> "content", duration |-> d, flipped |-> IsFlipped(noteNum),
     chunks |-> pieces]

\* "if sourceClip.duration < duration": the clip is too short for the note
TooShort(src, duration) == src < duration

\* sourceClip.subclip(0, tEnd): the leading tEnd seconds of the source clip,
\* whose own duration is src, played forward
SubclipWhole(src, tEnd) == <<Chunk(src, FALSE)>>
Subclip(src, tEnd) == <<Chunk(tEnd, FALSE)>>

\* the "else" branch of both scripts: the clip is long enough and is trimmed
TrimPieces(src, duration) == Subclip(src, duration)

\* ---- createVideo of midisync_nogui.py (loop) ----

\* int(np.ceil(duration / sourceClip.duration)), for a positive divisor
NumLoopsFloor(duration, src) == duration \div src
NumLoops(duration, src) == (duration + src - 1) \div src

\* [sourceClip] * numLoops
Repeat(src, n) == [j \in 1..n |-> Chunk(src, FALSE)]

\* loopedClip.subclip(0, duration): the leading duration seconds of the pieces
RECURSIVE SubclipTo(_, _)
SubclipTo(pieces, d) ==
    IF pieces = <<>> \/ d <= 0 THEN <<>>
    ELSE IF pieces[1].duration >= d THEN <<Chunk(d, pieces[1].reversed)>>
    ELSE <<pieces[1]>> \o SubclipTo(Tail(pieces), d - pieces[1].duration)

LoopPieces(duration, src) == SubclipTo(Repeat(src, NumLoops(duration, src)), duration)

NoNotesN ==
    /\ pc = "nogui_start"
    /\ groupedEventsN = <<>>
    /\ outcomeN' = "nonotes"
    /\ pc' = "midisync_start"
    /\ UNCHANGED <<cfgVars, scanVars, groupedEvents, groupedEventsN,
                   videoClipsN, currentPosN, idxN, bVars>>

LoadClipN ==
    /\ pc = "nogui_start"
    /\ groupedEventsN # <<>>
    /\ videoClipsN' = <<>>
    /\ currentPosN' = 0
    /\ pc' = "nogui_loop"
    /\ UNCHANGED <<cfgVars, scanVars, groupedEvents, groupedEventsN,
                   idxN, outcomeN, bVars>>

\* one iteration of "for event in noteEvents" in midisync_nogui.py
LoopEvent ==
    /\ pc = "nogui_loop"
    /\ idxN < Len(groupedEventsN)
    /\ LET event == groupedEventsN[idxN + 1]
           duration == event.end - event.start
           gapped == WithGap(videoClipsN, event.start, currentPosN)
       IN IF TooShort(sourceDuration, duration) /\ sourceDuration = 0
            THEN \* duration / 0 raises: the script dies inside the loop
                 /\ videoClipsN' = gapped
                 /\ outcomeN' = "error"
                 /\ pc' = "midisync_start"
                 /\ UNCHANGED <<currentPosN, idxN>>
            ELSE /\ videoClipsN' = Append(gapped,
                        IF TooShort(sourceDuration, duration)
                          THEN NoteClip(LoopPieces(duration, sourceDuration),
                                        duration, event.noteNum)
                          ELSE NoteClip(TrimPieces(sourceDuration, duration), duration,
                                        event.noteNum))
                 /\ currentPosN' = event.end
                 /\ idxN' = idxN + 1
                 /\ UNCHANGED <<outcomeN, pc>>
    /\ UNCHANGED <<cfgVars, scanVars, groupedEvents, groupedEventsN, bVars>>

\* concatenate and write_videofile(fps = fps); a non-positive fps is handed
\* to the encoder unchecked, which may or may not produce a file
WriteN ==
    /\ pc = "nogui_loop"
    /\ idxN = Len(groupedEventsN)
    /\ outcomeN' \in (IF fps > 0 THEN {"written"} ELSE {"written", "error"})
    /\ pc' = "midisync_start"
    /\ UNCHANGED <<cfgVars, scanVars, groupedEvents, groupedEventsN,
                   videoClipsN, currentPosN, idxN, bVars>>

\* ---- createVideo of midisync.py (bounce) ----

NoNotes ==
    /\ pc = "midisync_start"
    /\ groupedEvents = <<>>
    /\ outcome' = "nonotes"
    /\ pc' = "done"
    /\ UNCHANGED <<cfgVars, scanVars, groupedEvents, groupedEventsN, nVars,
                   videoClips, currentPos, idx, clips, remainingDuration, forward>>

\* variant: the clip is loaded without the "if not noteEvents" test
LoadClipUnguarded ==
    /\ pc = "midisync_start"
    /\ videoClips' = <<>>
    /\ currentPos' = 0
    /\ pc' = "midisync_loop"
    /\ UNCHANGED <<cfgVars, scanVars, groupedEvents, groupedEventsN, nVars,
                   idx, clips, remainingDuration, forward, outcome>>

LoadClip ==
    /\ pc = "midisync_start"
    /\ groupedEvents # <<>>
    /\ videoClips' = <<>>
    /\ currentPos' = 0
    /\ pc' = "midisync_loop"
    /\ UNCHANGED <<cfgVars, scanVars, groupedEvents, groupedEventsN, nVars,
                   idx, clips, remainingDuration, forward, outcome>>

\* an iteration of "for event in noteEvents" that takes the trim branch
TrimEvent ==
    /\ pc = "midisync_loop"
    /\ idx < Len(groupedEvents)
    /\ LET event == groupedEvents[idx + 1]
           duration == event.end - event.start
           gapped == WithGap(videoClips, event.start, currentPos)
       IN /\ ~TooShort(sourceDuration, duration)
          /\ videoClips' = Append(gapped,
                 NoteClip(TrimPieces(sourceDuration, duration), duration, event.noteNum))
          /\ currentPos' = event.end
    /\ idx' = idx + 1
    /\ UNCHANGED <<cfgVars, scanVars, groupedEvents, groupedEventsN, nVars, pc,
                   clips, remainingDuration, forward, outcome>>

\* an iteration that takes the bounce branch, up to the head of the while loop
BounceBegin ==
    /\ pc = "midisync_loop"
    /\ idx < Len(groupedEvents)
    /\ LET event == groupedEvents[idx + 1]
           duration == event.end - event.start
       IN /\ TooShort(sourceDuration, duration)
          /\ videoClips' = WithGap(videoClips, event.start, currentPos)
          /\ clips' = <<>>
          /\ remainingDuration' = duration
          /\ forward' = TRUE
    /\ pc' = "bounce"
    /\ UNCHANGED <<cfgVars, scanVars, groupedEvents, groupedEventsN, nVars,
                   currentPos, idx, outcome>>

\* clipDuration = min(remainingDuration, sourceClip.duration)
ClipDurationFull(remaining, src) == src
ClipDuration(remaining, src) == IF remaining < src THEN remaining ELSE src

\* forward = not forward
NextForward(fwd) == ~fwd

\* .fx(fl_time(t -> clipDuration - t - 1/fps)).set_duration(clipDuration)
Reversed(piece) == [piece EXCEPT !.reversed = TRUE]

\* one iteration of "while remainingDuration > 0"; an iteration that makes
\* progress is never cut, the endless run of zero-length chunks is cut at
\* MaxChunks
BounceChunk ==
    /\ pc = "bounce"
    /\ remainingDuration > 0
    /\ \/ ClipDuration(remainingDuration, sourceDuration) > 0
       \/ Len(clips) < MaxChunks
    /\ LET clipDuration == ClipDuration(remainingDuration, sourceDuration)
           piece == Subclip(sourceDuration, clipDuration)[1]
       IN /\ clips' = Append(clips, IF forward THEN piece ELSE Reversed(piece))
          /\ remainingDuration' = remainingDuration - clipDuration
    /\ forward' = NextForward(forward)
    /\ UNCHANGED <<cfgVars, scanVars, groupedEvents, groupedEventsN, nVars, pc,
                   videoClips, currentPos, idx, outcome>>

\* the while loop has ended: concatenate the chunks, flip, append, move on
BounceEnd ==
    /\ pc = "bounce"
    /\ ~(remainingDuration > 0)
    /\ LET event == groupedEvents[idx + 1]
       IN /\ videoClips' = Append(videoClips,
                 NoteClip(clips, SumDur(clips), event.noteNum))
          /\ currentPos' = event.end
    /\ idx' = idx + 1
    /\ pc' = "midisync_loop"
    /\ UNCHANGED <<cfgVars, scanVars, groupedEvents, groupedEventsN, nVars,
                   clips, remainingDuration, forward, outcome>>

\* concatenate and write_videofile(fps = 30)
Write ==
    /\ pc = "midisync_loop"
    /\ idx = Len(groupedEvents)
    /\ outcome' = "written"
    /\ pc' = "done"
    /\ UNCHANGED <<cfgVars, scanVars, groupedEvents, groupedEventsN, nVars,
                   videoClips, currentPos, idx, clips, remainingDuration, forward>>

InitRest ==
    /\ pc = "scan"
    /\ msgCount = 0
    /\ msg = NoMsg
    /\ wasActive = FALSE
    /\ currentTime = 0
    /\ activeNotes = [q \in {} |-> 0]
    /\ noteEvents = <<>>
    /\ groupedEvents = <<>>
    /\ groupedEventsN = <<>>
    /\ videoClipsN = <<>> /\ currentPosN = 0 /\ idxN = 0 /\ outcomeN = "none"
    /\ videoClips = <<>> /\ currentPos = 0 /\ idx = 0 /\ clips = <<>>
    /\ remainingDuration = 0 /\ forward = TRUE /\ outcome = "none"

Init ==
    /\ chordThreshold \in Thresholds
    /\ fps = DefaultFps
    /\ sourceDuration \in SourceDurations
    /\ InitRest

\* a run with arguments or a clip the specification calls configuration errors
InitCfg ==
    /\ chordThreshold \in {0, Grid}
    /\ fps \in {0, DefaultFps}
    /\ sourceDuration \in {0, Grid}
    /\ InitRest

Next ==
    \/ ProcessMsg
    \/ ExtractFinish
    \/ NoNotesN
    \/ LoadClipN
    \/ LoopEvent
    \/ WriteN
    \/ NoNotes
    \/ LoadClip
    \/ TrimEvent
    \/ BounceBegin
    \/ BounceChunk
    \/ BounceEnd
    \/ Write

Spec == Init /\ [][Next]_vars

\* files of up to MaxMsgs + 1 messages (three notes), one configuration
InitLong ==
    /\ chordThreshold = Grid
    /\ fps = DefaultFps
    /\ sourceDuration = Grid
    /\ InitRest

NextLong ==
    \/ ProcessMsgLong
    \/ ExtractFinish
    \/ NoNotesN
    \/ LoadClipN
    \/ LoopEvent
    \/ WriteN
    \/ NoNotes
    \/ LoadClip
    \/ TrimEvent
    \/ BounceBegin
    \/ BounceChunk
    \/ BounceEnd
    \/ Write

SpecLong == InitLong /\ [][NextLong]_vars

SpecCfg == InitCfg /\ [][Next]_vars

\* ---- properties ----

\* positions of the content segments of a timeline, in order
RECURSIVE ContentPositions(_, _)
ContentPositions(vc, i) ==
    IF i > Len(vc) THEN <<>>
    ELSE (IF vc[i].kind = "content" THEN <<i>> ELSE <<>>) \o ContentPositions(vc, i + 1)

Prefix(vc, n) == SubSeq(vc, 1, n)
Last(s) == s[Len(s)]
GroupDuration(g) == g.end - g.start

\* C1: once all groups are processed, the durations of the emitted segments
\* sum to the end time of the last grouped event (stated for both scripts)
TimelineCoverage ==
    /\ (pc = "midisync_loop" /\ idx = Len(groupedEvents))
          => SumDur(videoClips) = Last(groupedEvents).end
    /\ (pc # "nogui_loop" /\ idxN > 0 /\ idxN = Len(groupedEventsN))
          => SumDur(videoClipsN) = Last(groupedEventsN).end

\* the content of every processed group lies on [start, end] of the timeline
OnInterval(vc, groups, n) ==
    LET cp == ContentPositions(vc, 1)
    IN /\ Len(cp) = n
       /\ \A k \in 1..n :
            /\ SumDur(Prefix(vc, cp[k] - 1)) = groups[k].start
            /\ vc[cp[k]].duration = GroupDuration(groups[k])

\* C2: every group's content starts at the group's start and lasts end - start,
\* and the cursor is never behind the end of a group already processed
NoGapsNoOverlaps ==
    /\ OnInterval(videoClips, groupedEvents, idx)
    /\ OnInterval(videoClipsN, groupedEventsN, idxN)
    /\ \A k \in 1..idx : groupedEvents[k].end <= currentPos
    /\ \A k \in 1..idxN : groupedEventsN[k].end <= currentPosN

FlipByIndex(vc, groups) ==
    LET cp == ContentPositions(vc, 1)
    IN /\ Len(cp) <= Len(groups)
       /\ \A k \in 1..Len(cp) : vc[cp[k]].flipped <=> (groups[k].noteNum % 2 = 0)
       /\ \A j \in 1..Len(vc) : vc[j].kind = "filler" => ~vc[j].flipped

\* C3: the content of a group is flipped iff the group's own number is even,
\* whatever the number of fillers before it
ParityFlip ==
    /\ FlipByIndex(videoClips, groupedEvents)
    /\ FlipByIndex(videoClipsN, groupedEventsN)

\* a filler shifts the first group to position 2, the second to position 4
ParityFlipWitness ==
    /\ pc = "done"
    /\ Len(videoClips) = 4
    /\ videoClips[1].kind = "filler" /\ videoClips[3].kind = "filler"
    /\ ~videoClips[2].flipped /\ videoClips[4].flipped
    /\ Len(videoClipsN) = 4 /\ ~videoClipsN[2].flipped /\ videoClipsN[4].flipped

\* the groups a greedy left-anchored sweep of the sorted notes must give:
\* the first note anchors a group, anchors are more than the threshold apart,
\* every anchor is a note start and every note is within the threshold of
\* the anchor at or before it
GreedyGroups(sorted, groups, threshold) ==
    /\ (sorted = <<>>) <=> (groups = <<>>)
    /\ sorted # <<>> => groups[1].start = sorted[1].start
    /\ \A k \in 1..(Len(groups) - 1) : groups[k + 1].start - groups[k].start > threshold
    /\ \A k \in 1..Len(groups) : \E i \in 1..Len(sorted) : sorted[i].start = groups[k].start
    /\ \A i \in 1..Len(sorted) : \E k \in 1..Len(groups) :
            /\ groups[k].start <= sorted[i].start
            /\ sorted[i].start - groups[k].start <= threshold

\* C4: a note opens a group iff it is the first or starts more than
\* chordThreshold after the last opened group; at exactly chordThreshold it is
\* absorbed.  With the threshold of 0.1 s: two notes 1/16 s apart give one
\* group, two notes 2/16 s or 3/16 s apart give two.
ChordGroupingRule ==
    pc # "scan" =>
        /\ GreedyGroups(noteEvents, groupedEvents, DefaultChordThreshold)
        /\ GreedyGroups(noteEvents, groupedEventsN, chordThreshold)
        /\ Len(noteEvents) = 2 =>
              LET gap == noteEvents[2].start - noteEvents[1].start
              IN /\ gap = Grid => Len(groupedEvents) = 1
                 /\ gap = 2 * Grid => Len(groupedEvents) = 2
                 /\ gap = 3 * Grid => Len(groupedEvents) = 2
                 /\ gap = chordThreshold => Len(groupedEventsN) = 1
                 /\ gap > chordThreshold => Len(groupedEventsN) = 2

\* two notes exactly chordThreshold apart end up in one group, and in two
\* with the smaller default threshold
ChordGroupingWitness ==
    /\ pc = "done"
    /\ Len(noteEvents) = 2
    /\ noteEvents[2].start - noteEvents[1].start = chordThreshold
    /\ chordThreshold > DefaultChordThreshold
    /\ Len(groupedEventsN) = 1
    /\ Len(groupedEvents) = 2

Numbered(groups, notes) ==
    /\ \A k \in 1..Len(groups) : groups[k].noteNum = k
    /\ Len(groups) <= Len(notes)
    /\ (Len(groups) = 0) <=> (Len(notes) = 0)

\* C5: the groups are numbered 1..N in list order, N is at most the number of
\* matched pairs and is 0 exactly when no pair matched
GroupNumbering ==
    pc # "scan" =>
        /\ Numbered(groupedEvents, noteEvents)
        /\ Numbered(groupedEventsN, noteEvents)

\* two matched pairs: two groups for midisync.py, one chord for the other script
GroupNumberingWitness ==
    /\ pc = "done"
    /\ Len(noteEvents) = 2
    /\ Len(groupedEvents) = 2
    /\ Len(groupedEventsN) = 1

TrimmedWhenFits(vc, groups, n) ==
    LET cp == ContentPositions(vc, 1)
    IN \A k \in 1..n :
          (k <= Len(cp) /\ sourceDuration >= GroupDuration(groups[k])) =>
              /\ Len(vc[cp[k]].chunks) = 1
              /\ ~vc[cp[k]].chunks[1].reversed
              /\ vc[cp[k]].chunks[1].duration = GroupDuration(groups[k])
              /\ vc[cp[k]].duration = GroupDuration(groups[k])

\* C6: when the source is at least as long as the content (equality included)
\* the group gets exactly one forward piece of the content's duration
TrimFit ==
    /\ TrimmedWhenFits(videoClips, groupedEvents, idx)
    /\ TrimmedWhenFits(videoClipsN, groupedEventsN, idxN)

\* a note exactly as long as the source clip, and a shorter one
TrimFitWitness ==
    /\ pc = "done"
    /\ idx = 2 /\ idxN = 2
    /\ \E k \in 1..2 : GroupDuration(groupedEvents[k]) = sourceDuration
    /\ \E k \in 1..2 : /\ GroupDuration(groupedEvents[k]) < sourceDuration
                       /\ GroupDuration(groupedEvents[k]) > 0

\* chunks alternate from forward, each min(remaining, source) long
Bounced(chunks, total) ==
    /\ \A j \in 1..Len(chunks) :
          /\ chunks[j].reversed <=> (j % 2 = 0)
          /\ LET left == total - SumDur(Prefix(chunks, j - 1))
             IN chunks[j].duration = IF left < sourceDuration THEN left ELSE sourceDuration
    /\ SumDur(chunks) <= total

\* C7: in the bounce loop the chunks alternate forward, reversed, ... from
\* forward, each is min(remaining, sourceDuration) long, their sum never
\* exceeds the content duration and equals it when the loop ends
BounceFit ==
    /\ pc = "bounce" =>
          LET total == GroupDuration(groupedEvents[idx + 1])
          IN /\ Bounced(clips, total)
             /\ remainingDuration = total - SumDur(clips)
             /\ ~(remainingDuration > 0) => SumDur(clips) = total
             /\ (sourceDuration = 2 * Grid /\ total = 5 * Grid
                    /\ remainingDuration = 0)
                   => clips = <<Chunk(2 * Grid, FALSE), Chunk(2 * Grid, TRUE),
                                Chunk(Grid, FALSE)>>
    /\ LET cp == ContentPositions(videoClips, 1)
       IN \A k \in 1..Len(cp) :
             sourceDuration < GroupDuration(groupedEvents[k]) =>
                /\ Bounced(videoClips[cp[k]].chunks, GroupDuration(groupedEvents[k]))
                /\ SumDur(videoClips[cp[k]].chunks) = GroupDuration(groupedEvents[k])

\* source 2/16 s, content 5/16 s: forward 2/16, reversed 2/16, forward 1/16
BounceFitWitness ==
    /\ pc = "done"
    /\ sourceDuration = 2 * Grid
    /\ \E j \in 1..Len(videoClips) :
          videoClips[j].chunks = <<Chunk(2 * Grid, FALSE), Chunk(2 * Grid, TRUE),
                                   Chunk(Grid, FALSE)>>

\* n forward pieces, n = ceil(total / source), trimmed to total
Looped(chunks, total) ==
    /\ (Len(chunks) - 1) * sourceDuration < total
    /\ total <= Len(chunks) * sourceDuration
    /\ \A j \in 1..Len(chunks) : ~chunks[j].reversed
    /\ \A j \in 1..(Len(chunks) - 1) : chunks[j].duration = sourceDuration
    /\ SumDur(chunks) = total

\* C8: on the same grouped events and the same source the two builders emit
\* the same fillers at the same positions and, for every group, content of
\* the same total duration and the same flip; the loop builder's content is
\* ceil(content / source) forward repeats trimmed to the content duration
LoopBounceEquivalent ==
    (pc = "done" /\ outcome = "written" /\ outcomeN = "written"
        /\ groupedEvents = groupedEventsN) =>
        /\ Len(videoClips) = Len(videoClipsN)
        /\ \A j \in 1..Len(videoClips) :
              /\ videoClips[j].kind = videoClipsN[j].kind
              /\ videoClips[j].duration = videoClipsN[j].duration
              /\ videoClips[j].flipped = videoClipsN[j].flipped
              /\ SumDur(videoClips[j].chunks) = SumDur(videoClipsN[j].chunks)
              /\ (videoClips[j].kind = "content"
                    /\ sourceDuration < videoClipsN[j].duration)
                    => Looped(videoClipsN[j].chunks, videoClipsN[j].duration)

\* a group whose content is bounced by one script and looped by the other,
\* after a filler
LoopBounceWitness ==
    /\ pc = "done" /\ outcome = "written" /\ outcomeN = "written"
    /\ groupedEvents = groupedEventsN
    /\ \E j \in 2..Len(videoClips) :
          /\ videoClips[j - 1].kind = "filler"
          /\ Len(videoClips[j].chunks) = 3
          /\ videoClips[j].chunks[2].reversed
          /\ Len(videoClipsN[j].chunks) = 3
          /\ videoClipsN[j].chunks[3].duration < sourceDuration

\* C9: a group of length zero gives no content segment, so that every
\* emitted segment has a duration greater than 0
ZeroLengthDropped ==
    /\ \A j \in 1..Len(videoClips) : videoClips[j].duration > 0
    /\ \A j \in 1..Len(videoClipsN) : videoClipsN[j].duration > 0

ConfigError == chordThreshold <= 0 \/ fps <= 0 \/ sourceDuration <= 0

\* C10: with a non-positive chord threshold, frame rate or source duration
\* no note is grouped, no group is walked and no segment is emitted, and the
\* run does not end with a written file
ConfigRejected ==
    ConfigError =>
        /\ groupedEvents = <<>> /\ groupedEventsN = <<>>
        /\ idx = 0 /\ idxN = 0
        /\ videoClips = <<>> /\ videoClipsN = <<>>
        /\ outcome # "written" /\ outcomeN # "written"

NothingDone(out) == out \in {"none", "nonotes"}

\* C11: when no note pair matched, extractNotes returns the empty list and
\* createVideo returns at "No notes found": the clip is not loaded, no
\* segment is emitted and nothing is written
EmptyResult ==
    (pc # "scan" /\ noteEvents = <<>>) =>
        /\ groupedEvents = <<>> /\ groupedEventsN = <<>>
        /\ pc \in {"nogui_start", "midisync_start", "done"}
        /\ videoClips = <<>> /\ videoClipsN = <<>>
        /\ NothingDone(outcome) /\ NothingDone(outcomeN)
        /\ pc = "done" => (outcome = "nonotes" /\ outcomeN = "nonotes")

\* both scripts have returned at "No notes found"
EmptyResultWitness ==
    /\ pc = "done"
    /\ noteEvents = <<>>
    /\ outcome = "nonotes" /\ outcomeN = "nonotes"
    /\ videoClips = <<>> /\ videoClipsN = <<>>

\* every note starts within the threshold of the note before it
Drift(sorted, threshold) ==
    /\ Len(sorted) >= 2
    /\ \A i \in 1..(Len(sorted) - 1) : sorted[i + 1].start - sorted[i].start <= threshold

Span(sorted) == Last(sorted).start - sorted[1].start

\* C12 as stated: a drifting run whose span exceeds the threshold is still
\* one single group
SlowDriftMerged ==
    pc # "scan" =>
        /\ (Drift(noteEvents, chordThreshold) /\ Span(noteEvents) > chordThreshold)
              => Len(groupedEventsN) = 1
        /\ (Drift(noteEvents, DefaultChordThreshold)
              /\ Span(noteEvents) > DefaultChordThreshold)
              => Len(groupedEvents) = 1

\* a drifting run is one group exactly when its span is within the
\* threshold; otherwise the second group opens at the first note that starts
\* more than the threshold after the first note of the run
DriftSplit(sorted, groups, threshold) ==
    Drift(sorted, threshold) =>
        /\ (Len(groups) = 1) <=> (Span(sorted) <= threshold)
        /\ Span(sorted) > threshold =>
              /\ Len(groups) >= 2
              /\ groups[2].start - sorted[1].start > threshold
              /\ \A i \in 1..Len(sorted) :
                    sorted[i].start - sorted[1].start > threshold
                       => groups[2].start <= sorted[i].start

\* C12 (amended): the threshold is measured from the group's first note, so
\* a slow drift is split as soon as a note starts more than chordThreshold
\* after that first note
SlowDriftSplit ==
    pc # "scan" =>
        /\ DriftSplit(noteEvents, groupedEventsN, chordThreshold)
        /\ DriftSplit(noteEvents, groupedEvents, DefaultChordThreshold)

\* three notes 1/16 s apart with a threshold of 1/16 s: two groups
SlowDriftWitness ==
    /\ pc = "done"
    /\ Len(noteEvents) = 3
    /\ Drift(noteEvents, chordThreshold)
    /\ Span(noteEvents) > chordThreshold
    /\ Len(groupedEventsN) = 2
    /\ groupedEventsN[2].start = noteEvents[3].start

\* the first note, in sorted order, of the cluster of a group
Anchor(sorted, g) ==
    sorted[CHOOSE i \in 1..Len(sorted) :
              /\ sorted[i].start = g.start
              /\ \A j \in 1..(i - 1) : sorted[j].start < g.start]

AnchorTimed(sorted, groups) ==
    \A k \in 1..Len(groups) :
        /\ \E i \in 1..Len(sorted) : sorted[i].start = groups[k].start
        /\ groups[k].start = Anchor(sorted, groups[k]).start
        /\ groups[k].end = Anchor(sorted, groups[k]).end

\* C13: the start and end of a group are those of the first note of its
\* cluster; absorbed notes change neither, even when they end later
AnchorTiming ==
    pc # "scan" =>
        /\ AnchorTimed(noteEvents, groupedEvents)
        /\ AnchorTimed(noteEvents, groupedEventsN)

\* a chord whose second note starts later and ends later than the anchor
AnchorTimingWitness ==
    /\ pc = "done"
    /\ Len(noteEvents) = 2
    /\ noteEvents[2].start > noteEvents[1].start
    /\ noteEvents[2].end > noteEvents[1].end
    /\ Len(groupedEvents) = 1
    /\ groupedEvents[1].end = noteEvents[1].end

\* a step of the message loop / the return of extractNotes
MsgStep == pc = "scan" /\ pc' = "scan" /\ msgCount' = msgCount + 1
ReturnStep == pc = "scan" /\ pc' # "scan"

\* the notes of one pitch do not overlap and an open start is not before
\* the end of any emitted note of its pitch
OneOpenStart ==
    /\ \A i, j \in 1..Len(noteEvents) :
          (i < j /\ noteEvents[i].pitch = noteEvents[j].pitch)
             => noteEvents[i].end <= noteEvents[j].start
    /\ \A i \in 1..Len(noteEvents) :
          noteEvents[i].pitch \in DOMAIN activeNotes
             => noteEvents[i].end <= activeNotes[noteEvents[i].pitch]

\* C14: a note-begin for a pitch that is already active replaces the
\* recorded start by the current clock and emits nothing; the next note-end
\* of the pitch emits one note from the start then recorded and closes it
ReTriggerOverwrites ==
    /\ [](pc = "scan" => OneOpenStart)
    /\ [][MsgStep =>
            /\ (IsNoteOn(msg') /\ msg'.note \in DOMAIN activeNotes) =>
                  /\ activeNotes' = [activeNotes EXCEPT ![msg'.note] = currentTime']
                  /\ activeNotes'[msg'.note] = currentTime + msg'.time
                  /\ noteEvents' = noteEvents
            /\ (IsNoteOff(msg') /\ msg'.note \in DOMAIN activeNotes) =>
                  /\ Len(noteEvents') = Len(noteEvents) + 1
                  /\ Last(noteEvents').start = activeNotes[msg'.note]
                  /\ Last(noteEvents').pitch = msg'.note
                  /\ msg'.note \notin DOMAIN activeNotes']_vars

\* a second note-begin of an active pitch has just been processed, later
ReTriggerWitness ==
    /\ pc = "scan"
    /\ IsNoteOn(msg) /\ wasActive
    /\ msg.time > 0
    /\ activeNotes[msg.note] = currentTime
    /\ noteEvents = <<>>

\* C15: a note-end for a pitch that is not active changes neither the table
\* nor the emitted notes and the scan goes on; the clock advances by the delta
UnmatchedEndIgnored ==
    [][(MsgStep /\ IsNoteOff(msg') /\ msg'.note \notin DOMAIN activeNotes) =>
            /\ activeNotes' = activeNotes
            /\ noteEvents' = noteEvents
            /\ currentTime' = currentTime + msg'.time]_vars

\* an unmatched end, of either form, after a positive delta while the other
\* pitch is active
UnmatchedEndWitness ==
    /\ pc = "scan"
    /\ IsNoteOff(msg) /\ ~wasActive
    /\ msg.time > 0
    /\ currentTime >= 2 * Grid
    /\ DOMAIN activeNotes # {}
    /\ noteEvents = <<>>

\* the same notes, each as many times, in two lists
SameNotes(a, b) ==
    /\ Len(a) = Len(b)
    /\ \A i \in 1..Len(a) :
          Cardinality({j \in 1..Len(a) : a[j] = a[i]})
             = Cardinality({j \in 1..Len(b) : b[j] = a[i]})

\* C16: the pitches still active at the end of the stream add no note and no
\* group; a note is only emitted by a note-end of an active pitch, from the
\* clock recorded at its note-begin to the clock at the note-end
UnterminatedDropped ==
    /\ [][ReturnStep =>
            /\ SameNotes(noteEvents, noteEvents')
            /\ Len(groupedEvents') <= Len(noteEvents)
            /\ Len(groupedEventsN') <= Len(noteEvents)]_vars
    /\ [][MsgStep =>
            /\ noteEvents' # noteEvents =>
                  /\ IsNoteOff(msg') /\ msg'.note \in DOMAIN activeNotes
                  /\ noteEvents' = Append(noteEvents,
                        [pitch |-> msg'.note, start |-> activeNotes[msg'.note],
                         end |-> currentTime'])
            /\ \A p \in DOMAIN activeNotes' :
                  (p \notin DOMAIN activeNotes \/ activeNotes'[p] # activeNotes[p])
                     => (IsNoteOn(msg') /\ p = msg'.note
                           /\ activeNotes'[p] = currentTime')]_vars
    /\ [](\A p \in DOMAIN activeNotes : activeNotes[p] <= currentTime)

\* the file is at its end with one note emitted and the other pitch still open
UnterminatedWitness ==
    /\ pc = "scan"
    /\ msgCount = MaxMsgs
    /\ Len(noteEvents) = 1
    /\ DOMAIN activeNotes = Pitches \ {noteEvents[1].pitch}

NoteOffMsg(p, d) == [type |-> "note_off", note |-> p, velocity |-> 64, time |-> d]
ZeroOnMsg(p, d) == [type |-> "note_on", note |-> p, velocity |-> 0, time |-> d]

\* C17: at every point of the scan a note-begin of intensity 0 has exactly
\* the effect of the note-end of the same pitch and delta, so that replacing
\* one by the other gives the same groups; after a note-begin of intensity 0
\* its pitch is not in the table
ZeroVelocityIsNoteOff ==
    pc = "scan" =>
        /\ \A p \in Pitches, d \in Deltas :
              ScanStep(ZeroOnMsg(p, d), currentTime, activeNotes, noteEvents)
                 = ScanStep(NoteOffMsg(p, d), currentTime, activeNotes, noteEvents)
        /\ (msg.type = "note_on" /\ msg.velocity = 0) =>
              /\ msg.note \notin DOMAIN activeNotes
              /\ wasActive => (/\ noteEvents # <<>>
                               /\ Last(noteEvents).pitch = msg.note
                               /\ Last(noteEvents).end = currentTime)

\* a note-begin of intensity 0 has just closed a note of positive length
ZeroVelocityWitness ==
    /\ pc = "scan"
    /\ msg.type = "note_on" /\ msg.velocity = 0
    /\ wasActive
    /\ Len(noteEvents) = 1
    /\ noteEvents[1].pitch = msg.note
    /\ noteEvents[1].start < noteEvents[1].end
    /\ noteEvents[1].end = currentTime

\* the notes of a list that start at t, in the order of the list
StartingAt(notes, t) ==
    LET StartsAtT(e) == e.start = t
    IN SelectSeq(notes, StartsAtT)

Ascending(notes) ==
    \A i \in 1..(Len(notes) - 1) : notes[i].start <= notes[i + 1].start

\* the end of the note that was emitted first among those starting at t
FirstEmittedEnd(notes, t) == StartingAt(notes, t)[1].end

\* C18: the sort orders the notes by start and keeps the emission order of
\* the notes of equal start, so that the end of a group is the end of the
\* note emitted first among those that share the start of the group
StableTies ==
    [][ReturnStep =>
          /\ Ascending(noteEvents')
          /\ SameNotes(noteEvents, noteEvents')
          /\ \A i \in 1..Len(noteEvents) :
                StartingAt(noteEvents', noteEvents[i].start)
                   = StartingAt(noteEvents, noteEvents[i].start)
          /\ \A k \in 1..Len(groupedEvents') :
                groupedEvents'[k].end = FirstEmittedEnd(noteEvents, groupedEvents'[k].start)
          /\ \A k \in 1..Len(groupedEventsN') :
                groupedEventsN'[k].end
                   = FirstEmittedEnd(noteEvents, groupedEventsN'[k].start)]_vars

\* two notes of equal start: the one that ended first is first and times the group
StableTiesWitness ==
    /\ pc = "done"
    /\ Len(noteEvents) = 2
    /\ noteEvents[1].start = noteEvents[2].start
    /\ noteEvents[1].end < noteEvents[2].end
    /\ Len(groupedEvents) = 1
    /\ groupedEvents[1].end = noteEvents[1].end

\* C19: every iteration of the bounce loop lowers the remaining duration, and
\* the loop ends after ceil(content / source) chunks
BounceTerminates ==
    /\ [][(pc = "bounce" /\ pc' = "bounce")
             => remainingDuration' < remainingDuration]_vars
    /\ [](pc = "bounce" /\ ~(remainingDuration > 0) =>
             LET total == GroupDuration(groupedEvents[idx + 1])
             IN /\ (Len(clips) - 1) * sourceDuration < total
                /\ total <= Len(clips) * sourceDuration)

\* the cursor a group is compared with: 0, or the end of the group before
CursorBefore(groups, k) == IF k = 1 THEN 0 ELSE groups[k - 1].end

\* exactly the groups that start after the cursor have a filler, of the
\* length of the gap, right before their content
FillersPlaced(vc, groups, n) ==
    LET cp == ContentPositions(vc, 1)
    IN /\ Len(cp) = n
       /\ \A k \in 1..n :
             LET before == IF k = 1 THEN 0 ELSE cp[k - 1]
             IN IF groups[k].start > CursorBefore(groups, k)
                  THEN /\ cp[k] = before + 2
                       /\ vc[cp[k] - 1].kind = "filler"
                       /\ vc[cp[k] - 1].duration
                             = groups[k].start - CursorBefore(groups, k)
                  ELSE cp[k] = before + 1

NoAdjacentFillers(vc) ==
    \A j \in 1..(Len(vc) - 1) : ~(vc[j].kind = "filler" /\ vc[j + 1].kind = "filler")

EndsWithContent(vc) == vc # <<>> => Last(vc).kind = "content"

\* C20: a filler is emitted for a group iff the group starts after the
\* cursor, with the length of the gap; no two fillers are adjacent and the
\* list of a finished iteration does not end with a filler
FillerPlacement ==
    /\ FillersPlaced(IF pc = "bounce" /\ Len(videoClips) > 0
                        /\ Last(videoClips).kind = "filler"
                       THEN Prefix(videoClips, Len(videoClips) - 1)
                       ELSE videoClips,
                     groupedEvents, idx)
    /\ pc = "bounce" =>
          LET g == groupedEvents[idx + 1]
          IN (g.start > currentPos) <=>
                (/\ videoClips # <<>>
                 /\ Last(videoClips) = GreenClip(g.start - currentPos))
    /\ FillersPlaced(videoClipsN, groupedEventsN, idxN)
    /\ NoAdjacentFillers(videoClips) /\ NoAdjacentFillers(videoClipsN)
    /\ pc # "bounce" => EndsWithContent(videoClips)
    /\ EndsWithContent(videoClipsN)

\* a filler before the first group and none before the second, which starts
\* exactly at the end of the first
FillerPlacementWitness ==
    /\ pc = "done"
    /\ Len(groupedEvents) = 2
    /\ groupedEvents[1].start > 0
    /\ groupedEvents[2].start = groupedEvents[1].end
    /\ Len(videoClips) = 3
    /\ videoClips[1] = GreenClip(groupedEvents[1].start)
    /\ videoClips[2].kind = "content" /\ videoClips[3].kind = "content"
    /\ Len(videoClipsN) = 3
====
